---- MODULE Spec2Model ----
(***************************************************************************)
(* Model of the AQ-NHE configuration loader (config/settings.py) and of    *)
(* the FirebaseClient singleton wrapper (core/firebase_client.py).         *)
(*                                                                         *)
(* Strings are sequences of one-character strings, so that str.replace is  *)
(* computed on characters.  An optional value (None or a value) is the     *)
(* empty set or a singleton set.                                           *)
(***************************************************************************)
EXTENDS Integers, Sequences, FiniteSets, TLC

(***************************************************************************)
(* Bounds of the model.                                                    *)
(***************************************************************************)
MaxKeyLen == 4
MaxLayers == 2
NThreads == 2
MaxCalls == 3

(***************************************************************************)
(* Characters and strings.                                                 *)
(***************************************************************************)
BS == "\\"
LN == "n"
NL == "\n"
Chars == {BS, LN, NL, "k"}

RECURSIVE StringsUpTo(_, _)
StringsUpTo(alphabet, n) ==
    IF n = 0 THEN {<< >>}
    ELSE LET shorter == StringsUpTo(alphabet, n - 1)
         IN  shorter \cup {<<c>> \o s : c \in alphabet, s \in {x \in shorter : Len(x) = n - 1}}

None == {}
Some(v) == {v}
TheValue(opt) == CHOOSE v \in opt : TRUE

(* Python truthiness of an optional string: None and "" are falsy. *)
Truthy(opt) == opt # None /\ TheValue(opt) # << >>

(***************************************************************************)
(* str.replace(old, new): leftmost non-overlapping occurrences of old,     *)
(* scanning left to right.                                                 *)
(***************************************************************************)
RECURSIVE StrReplace(_, _, _)
StrReplace(s, old, new) ==
    IF Len(s) < Len(old) THEN s
    ELSE IF SubSeq(s, 1, Len(old)) = old
         THEN new \o StrReplace(SubSeq(s, Len(old) + 1, Len(s)), old, new)
         ELSE <<s[1]>> \o StrReplace(Tail(s), old, new)

(* str.replace(old, new, 1): the bug of replacing only the first occurrence. *)
RECURSIVE StrReplaceFirst(_, _, _)
StrReplaceFirst(s, old, new) ==
    IF Len(s) < Len(old) THEN s
    ELSE IF SubSeq(s, 1, Len(old)) = old
         THEN new \o SubSeq(s, Len(old) + 1, Len(s))
         ELSE <<s[1]>> \o StrReplaceFirst(Tail(s), old, new)

NormalizeFirstOnly(key) == StrReplaceFirst(key, <<BS, LN>>, <<NL>>)

(* self.private_key.replace('\\n', '\n') *)
NormalizePrivateKey(key) == StrReplace(key, <<BS, LN>>, <<NL>>)

(***************************************************************************)
(* The process environment.                                                *)
(***************************************************************************)
RequiredVars == <<"FIREBASE_PROJECT_ID", "FIREBASE_PRIVATE_KEY", "FIREBASE_CLIENT_EMAIL">>
OptionalVars == {"FIREBASE_PRIVATE_KEY_ID", "FIREBASE_CLIENT_ID", "FIREBASE_DATABASE_URL"}
RequiredSet == {RequiredVars[i] : i \in 1..Len(RequiredVars)}
EnvVars == RequiredSet \cup OptionalVars

ShortValues == {<< >>, <<"k">>}
KeyValues == StringsUpTo(Chars, MaxKeyLen)

(* The environments explored: every variable unset, empty or set. *)
KeyChoices == {None} \cup {Some(v) : v \in KeyValues}
ShortChoices == {None} \cup {Some(v) : v \in ShortValues}
Environments ==
    {[var \in EnvVars |-> IF var = "FIREBASE_PRIVATE_KEY" THEN k ELSE s[var]] :
        k \in KeyChoices, s \in [EnvVars \ {"FIREBASE_PRIVATE_KEY"} -> ShortChoices]}

(* os.getenv(var): None when the variable is not set. *)
GetEnv(e, var) == e[var]

(* os.getenv(var, default) *)
GetEnvDefault(e, var, default) == IF e[var] = None THEN default ELSE TheValue(e[var])

(***************************************************************************)
(* Exceptions: a type and a message.  A message is the sequence of the     *)
(* pieces it is formatted from; an interpolated name is one piece.         *)
(***************************************************************************)
RECURSIVE Join(_, _)
Join(names, sep) ==
    IF names = << >> THEN << >>
    ELSE IF Len(names) = 1 THEN <<names[1]>>
    ELSE <<names[1], sep>> \o Join(Tail(names), sep)

Mentions(msg, name) == \E i \in 1..Len(msg) : msg[i] = name

RECURSIVE SelectSeqBy(_, _)
SelectSeqBy(s, keep) ==
    IF s = << >> THEN << >>
    ELSE (IF s[1] \in keep THEN <<s[1]>> ELSE << >>) \o SelectSeqBy(Tail(s), keep)

(* Reporting only the first missing variable. *)
MissingFirstOnly(e) ==
    LET all == SelectSeqBy(RequiredVars, {var \in RequiredSet : ~Truthy(GetEnv(e, var))})
    IN  IF all = << >> THEN << >> ELSE <<all[1]>>

(* missing = [var for var in required_vars if not os.getenv(var)] *)
MissingVars(e) ==
    SelectSeqBy(RequiredVars, {var \in RequiredSet : ~Truthy(GetEnv(e, var))})

EnvironmentErrorFor(missing) ==
    [type |-> "EnvironmentError",
     msg  |-> <<"Missing required environment variables: ">> \o Join(missing, ", ")
              \o <<". Please set these in your .env file or environment.">>]

(* _validate_environment: the exception raised, or None. *)
ValidateEnvironmentResult(e) ==
    LET missing == MissingVars(e)
    IN  IF missing # << >> THEN Some(EnvironmentErrorFor(missing)) ELSE None

(***************************************************************************)
(* The dataclasses.  A construction yields [exc, val]: the exception       *)
(* raised or the object built.                                             *)
(***************************************************************************)
FirebaseFields == {"project_id", "private_key_id", "private_key",
                   "client_email", "client_id", "database_url"}
CheckedFields == {"project_id", "private_key", "client_email"}

Raised(x) == [exc |-> Some(x), val |-> None]
Built(v) == [exc |-> None, val |-> Some(v)]

(* Validating with `any` in place of `all`. *)
FirebaseConfigAny(args) ==
    IF ~(\E f \in CheckedFields : args[f] # << >>)
    THEN Raised([type |-> "ValueError", msg |-> <<"Missing required Firebase credentials">>])
    ELSE Built([args EXCEPT !["private_key"] = NormalizePrivateKey(args["private_key"])])

(* FirebaseConfig called with keyword arguments args: the generated __init__ assigns the fields, then __post_init__. *)
FirebaseConfig(args) ==
    IF ~(\A f \in CheckedFields : args[f] # << >>)
    THEN Raised([type |-> "ValueError", msg |-> <<"Missing required Firebase credentials">>])
    ELSE Built([args EXCEPT !["private_key"] = NormalizePrivateKey(args["private_key"])])

DefaultLayers == <<64, 32, 16, 8>>

(* Ignoring the argument: always the default. *)
QuantumNeuroAlwaysDefault(layers) ==
    [population_size |-> 50, generations |-> 100, mutation_rate |-> "0.1",
     crossover_rate |-> "0.8", quantum_bits |-> 10, neuro_layers |-> Some(DefaultLayers)]

(* QuantumNeuroConfig(neuro_layers=layers); layers is None or a list. *)
QuantumNeuroConfig(layers) ==
    [population_size |-> 50, generations |-> 100, mutation_rate |-> "0.1",
     crossover_rate |-> "0.8", quantum_bits |-> 10,
     neuro_layers |-> IF layers = None THEN Some(DefaultLayers) ELSE layers]

TradingConfig ==
    [exchange |-> "binance", timeframe |-> "1h", max_position_size |-> "0.1",
     max_strategies |-> 100, backtest_days |-> 365]

LoggingConfig ==
    [level |-> "INFO",
     format |-> "%(asctime)s - %(name)s - %(levelname)s - %(message)s",
     file_path |-> "logs/aq_nhe.log"]

(* client_id read from the variable of private_key_id. *)
FirebaseArgsWrongVariable(e) ==
    [project_id     |-> GetEnvDefault(e, "FIREBASE_PROJECT_ID", << >>),
     private_key_id |-> GetEnvDefault(e, "FIREBASE_PRIVATE_KEY_ID", << >>),
     private_key    |-> GetEnvDefault(e, "FIREBASE_PRIVATE_KEY", << >>),
     client_email   |-> GetEnvDefault(e, "FIREBASE_CLIENT_EMAIL", << >>),
     client_id      |-> GetEnvDefault(e, "FIREBASE_PRIVATE_KEY_ID", << >>),
     database_url   |-> GetEnvDefault(e, "FIREBASE_DATABASE_URL", << >>)]

(* The keyword arguments AQNHEConfig.__init__ passes to FirebaseConfig. *)
FirebaseArgsFromEnv(e) ==
    [project_id     |-> GetEnvDefault(e, "FIREBASE_PROJECT_ID", << >>),
     private_key_id |-> GetEnvDefault(e, "FIREBASE_PRIVATE_KEY_ID", << >>),
     private_key    |-> GetEnvDefault(e, "FIREBASE_PRIVATE_KEY", << >>),
     client_email   |-> GetEnvDefault(e, "FIREBASE_CLIENT_EMAIL", << >>),
     client_id      |-> GetEnvDefault(e, "FIREBASE_CLIENT_ID", << >>),
     database_url   |-> GetEnvDefault(e, "FIREBASE_DATABASE_URL", << >>)]

VARIABLES
    env,              \* os.environ after load_dotenv()
    cpc,              \* position inside AQNHEConfig.__init__
    error,            \* the exception AQNHEConfig() raised, or None
    firebase, trading, quantum_neuro, logging,      \* attributes of the AQNHEConfig object
    min_sharpe_ratio, max_drawdown, min_win_rate,   \* (None: not assigned yet)
    made,             \* the last dataclass construction: None or [cls, args, out]
    _instance,        \* FirebaseClient._instance: 0 is None, else an object id
    nObjects,         \* FirebaseClient objects allocated so far (ids 1..nObjects)
    _initialized,     \* object id -> its _initialized (the class attribute False until set)
    tpc,              \* thread -> position inside FirebaseClient()
    self,             \* thread -> the object __new__ returned to its call (0: none)
    exc,              \* thread -> the exception its call caught in __init__, or None
    attempts,         \* thread -> _initialize_firebase executions in its call under way
    log,              \* the records handed to logger, oldest first
    calls,            \* the completed FirebaseClient() calls, oldest first
    initCount         \* executions of _initialize_firebase in the process

cfgVars == <<env, cpc, error, firebase, trading, quantum_neuro, logging,
             min_sharpe_ratio, max_drawdown, min_win_rate>>
clientVars == <<_instance, nObjects, _initialized, tpc, self, exc, attempts,
                log, calls, initCount>>
vars == <<env, cpc, error, firebase, trading, quantum_neuro, logging,
          min_sharpe_ratio, max_drawdown, min_win_rate, made,
          _instance, nObjects, _initialized, tpc, self, exc, attempts,
          log, calls, initCount>>

Threads == 1..NThreads
Objects == 1..MaxCalls          \* every object is created by a call
Exceptions == {"FirebaseError", "ValueError"}

(* No FirebaseClient() call has been made. *)
ClientFresh ==
    /\ _instance = 0
    /\ nObjects = 0
    /\ _initialized = [o \in Objects |-> FALSE]
    /\ tpc = [t \in Threads |-> "idle"]
    /\ self = [t \in Threads |-> 0]
    /\ exc = [t \in Threads |-> None]
    /\ attempts = [t \in Threads |-> 0]
    /\ log = << >>
    /\ calls = << >>
    /\ initCount = 0

Sections == <<firebase, trading, quantum_neuro, logging,
              min_sharpe_ratio, max_drawdown, min_win_rate>>

(***************************************************************************)
(* config = AQNHEConfig(), statement by statement.                         *)
(***************************************************************************)
InitConfig ==
    /\ env \in Environments
    /\ cpc = "validate"
    /\ error = None
    /\ firebase = None /\ trading = None /\ quantum_neuro = None /\ logging = None
    /\ min_sharpe_ratio = None /\ max_drawdown = None /\ min_win_rate = None
    /\ made = None
    /\ ClientFresh

(* Validating only after the default sections are in place. *)
ValidateEnvironmentLate ==
    /\ cpc = "validate"
    /\ LET r == ValidateEnvironmentResult(env)
       IN  /\ error' = r
           /\ cpc' = IF r = None THEN "firebase" ELSE "failed"
    /\ trading' = Some(TradingConfig)
    /\ UNCHANGED <<env, firebase, quantum_neuro, logging,
                   min_sharpe_ratio, max_drawdown, min_win_rate, made, clientVars>>

(* self._validate_environment() *)
ValidateEnvironment ==
    /\ cpc = "validate"
    /\ LET r == ValidateEnvironmentResult(env)
       IN  /\ error' = r
           /\ cpc' = IF r = None THEN "firebase" ELSE "failed"
    /\ UNCHANGED <<env, firebase, trading, quantum_neuro, logging,
                   min_sharpe_ratio, max_drawdown, min_win_rate, made, clientVars>>

(* self.firebase = FirebaseConfig(project_id=os.getenv(...), ...) *)
BuildFirebase ==
    /\ cpc = "firebase"
    /\ LET r == FirebaseConfig(FirebaseArgsFromEnv(env))
       IN  /\ error' = r.exc
           /\ firebase' = r.val
           /\ cpc' = IF r.exc = None THEN "trading" ELSE "failed"
    /\ UNCHANGED <<env, trading, quantum_neuro, logging,
                   min_sharpe_ratio, max_drawdown, min_win_rate, made, clientVars>>

(* self.trading = TradingConfig() *)
BuildTrading ==
    /\ cpc = "trading"
    /\ trading' = Some(TradingConfig)
    /\ cpc' = "quantum_neuro"
    /\ UNCHANGED <<env, error, firebase, quantum_neuro, logging,
                   min_sharpe_ratio, max_drawdown, min_win_rate, made, clientVars>>

(* self.quantum_neuro = QuantumNeuroConfig() *)
BuildQuantumNeuro ==
    /\ cpc = "quantum_neuro"
    /\ quantum_neuro' = Some(QuantumNeuroConfig(None))
    /\ cpc' = "logging"
    /\ UNCHANGED <<env, error, firebase, trading, logging,
                   min_sharpe_ratio, max_drawdown, min_win_rate, made, clientVars>>

(* self.logging = LoggingConfig() *)
BuildLogging ==
    /\ cpc = "logging"
    /\ logging' = Some(LoggingConfig)
    /\ cpc' = "min_sharpe_ratio"
    /\ UNCHANGED <<env, error, firebase, trading, quantum_neuro,
                   min_sharpe_ratio, max_drawdown, min_win_rate, made, clientVars>>

(* self.min_sharpe_ratio = 1.0 *)
SetMinSharpeRatio ==
    /\ cpc = "min_sharpe_ratio"
    /\ min_sharpe_ratio' = Some("1.0")
    /\ cpc' = "max_drawdown"
    /\ UNCHANGED <<env, error, firebase, trading, quantum_neuro, logging,
                   max_drawdown, min_win_rate, made, clientVars>>

(* self.max_drawdown = -0.2 *)
SetMaxDrawdown ==
    /\ cpc = "max_drawdown"
    /\ max_drawdown' = Some("-0.2")
    /\ cpc' = "min_win_rate"
    /\ UNCHANGED <<env, error, firebase, trading, quantum_neuro, logging,
                   min_sharpe_ratio, min_win_rate, made, clientVars>>

(* self.min_win_rate = 0.55; __init__ returns. *)
SetMinWinRate ==
    /\ cpc = "min_win_rate"
    /\ min_win_rate' = Some("0.55")
    /\ cpc' = "done"
    /\ UNCHANGED <<env, error, firebase, trading, quantum_neuro, logging,
                   min_sharpe_ratio, max_drawdown, made, clientVars>>

Next ==
    \/ ValidateEnvironment
    \/ BuildFirebase
    \/ BuildTrading
    \/ BuildQuantumNeuro
    \/ BuildLogging
    \/ SetMinSharpeRatio
    \/ SetMaxDrawdown
    \/ SetMinWinRate

Spec == InitConfig /\ [][Next]_vars

(***************************************************************************)
(* The configuration a process that got past `from config.settings import  *)
(* config` holds: loaded from an environment with the mandatory variables. *)
(***************************************************************************)
DemoEnv ==
    [var \in EnvVars |->
        IF var = "FIREBASE_PRIVATE_KEY" THEN Some(<<"k", BS, LN>>)
        ELSE IF var \in RequiredSet THEN Some(<<"k">>)
        ELSE None]

ConfigLoaded ==
    /\ env = DemoEnv
    /\ cpc = "done"
    /\ error = None
    /\ firebase = FirebaseConfig(FirebaseArgsFromEnv(DemoEnv)).val
    /\ trading = Some(TradingConfig)
    /\ quantum_neuro = Some(QuantumNeuroConfig(None))
    /\ logging = Some(LoggingConfig)
    /\ min_sharpe_ratio = Some("1.0")
    /\ max_drawdown = Some("-0.2")
    /\ min_win_rate = Some("0.55")

(***************************************************************************)
(* The dataclasses constructed directly, with any arguments.               *)
(***************************************************************************)
FirebaseArgs ==
    {[project_id |-> p, private_key_id |-> i, private_key |-> k,
      client_email |-> m, client_id |-> << >>, database_url |-> << >>] :
        p \in ShortValues, i \in ShortValues, k \in KeyValues, m \in ShortValues}

LayerChoices == {None} \cup {Some(l) : l \in StringsUpTo({8, 64}, MaxLayers)}

InitClasses ==
    /\ ConfigLoaded
    /\ made = None
    /\ ClientFresh

(* FirebaseConfig(project_id=..., ...) *)
ConstructFirebaseConfig ==
    /\ made = None
    /\ \E args \in FirebaseArgs :
          made' = Some([cls |-> "FirebaseConfig", args |-> args, out |-> FirebaseConfig(args)])
    /\ UNCHANGED <<cfgVars, clientVars>>

(* QuantumNeuroConfig() or QuantumNeuroConfig(neuro_layers=...) *)
ConstructQuantumNeuroConfig ==
    /\ made = None
    /\ \E layers \in LayerChoices :
          made' = Some([cls |-> "QuantumNeuroConfig", args |-> layers,
                        out |-> Built(QuantumNeuroConfig(layers))])
    /\ UNCHANGED <<cfgVars, clientVars>>

NextClasses ==
    \/ ConstructFirebaseConfig
    \/ ConstructQuantumNeuroConfig

SpecClasses == InitClasses /\ [][NextClasses]_vars

(***************************************************************************)
(* FirebaseClient(): type.__call__ runs __new__, then __init__ on the      *)
(* object __new__ returned.  One action per statement a thread switch can  *)
(* separate.                                                               *)
(***************************************************************************)
InitClient ==
    /\ ConfigLoaded
    /\ made = None
    /\ ClientFresh

CallsStarted == Len(calls) + Cardinality({t \in Threads : tpc[t] # "idle"})

(* A caller evaluates FirebaseClient(). *)
Call(t) ==
    /\ tpc[t] = "idle"
    /\ CallsStarted < MaxCalls
    /\ tpc' = [tpc EXCEPT ![t] = "new_check"]
    /\ UNCHANGED <<cfgVars, made, _instance, nObjects, _initialized, self, exc, attempts,
                   log, calls, initCount>>

(* The same, by a caller that waits for every earlier call to end. *)
CallInTurn(t) ==
    /\ \A u \in Threads : tpc[u] = "idle"
    /\ Call(t)

(* __new__: if cls._instance is None *)
NewCheck(t) ==
    /\ tpc[t] = "new_check"
    /\ tpc' = [tpc EXCEPT ![t] = IF _instance = 0 THEN "new_create" ELSE "new_return"]
    /\ UNCHANGED <<cfgVars, made, _instance, nObjects, _initialized, self, exc, attempts,
                   log, calls, initCount>>

(* __new__: cls._instance = super(FirebaseClient, cls).__new__(cls) *)
NewCreate(t) ==
    /\ tpc[t] = "new_create"
    /\ nObjects' = nObjects + 1
    /\ _instance' = nObjects + 1
    /\ tpc' = [tpc EXCEPT ![t] = "new_return"]
    /\ UNCHANGED <<cfgVars, made, _initialized, self, exc, attempts, log, calls, initCount>>

(* __new__: return cls._instance *)
NewReturn(t) ==
    /\ tpc[t] = "new_return"
    /\ self' = [self EXCEPT ![t] = _instance]
    /\ tpc' = [tpc EXCEPT ![t] = "init_check"]
    /\ UNCHANGED <<cfgVars, made, _instance, nObjects, _initialized, exc, attempts,
                   log, calls, initCount>>

(* Initializing on every call. *)
InitCheckAlways(t) ==
    /\ tpc[t] = "init_check"
    /\ tpc' = [tpc EXCEPT ![t] = "init_firebase"]
    /\ UNCHANGED <<cfgVars, made, _instance, nObjects, _initialized, self, exc, attempts,
                   log, calls, initCount>>

(* __init__: if not self._initialized; when it is set, __init__ returns. *)
InitCheck(t) ==
    /\ tpc[t] = "init_check"
    /\ tpc' = [tpc EXCEPT ![t] = IF ~_initialized[self[t]] THEN "init_firebase" ELSE "return"]
    /\ UNCHANGED <<cfgVars, made, _instance, nObjects, _initialized, self, exc, attempts,
                   log, calls, initCount>>

(* Marking the object initialized before the SDK call is known to succeed. *)
InitializeFirebaseMarkFirst(t) ==
    /\ tpc[t] = "init_firebase"
    /\ initCount' = initCount + 1
    /\ attempts' = [attempts EXCEPT ![t] = @ + 1]
    /\ _initialized' = [_initialized EXCEPT ![self[t]] = TRUE]
    /\ \E outcome \in {"ok"} \cup Exceptions :
          IF outcome = "ok"
          THEN /\ tpc' = [tpc EXCEPT ![t] = "set_initialized"]
               /\ exc' = exc
          ELSE /\ tpc' = [tpc EXCEPT ![t] = "log_error"]
               /\ exc' = [exc EXCEPT ![t] = Some(outcome)]
    /\ UNCHANGED <<cfgVars, made, _instance, nObjects, self, log, calls>>

(* __init__: self._initialize_firebase().  Its body is calls into the       *)
(* firebase_admin SDK; what __init__ sees of it is that it returns or that  *)
(* it raises some exception, and either can happen on any execution.        *)
InitializeFirebase(t) ==
    /\ tpc[t] = "init_firebase"
    /\ initCount' = initCount + 1
    /\ attempts' = [attempts EXCEPT ![t] = @ + 1]
    /\ \E outcome \in {"ok"} \cup Exceptions :
          IF outcome = "ok"
          THEN /\ tpc' = [tpc EXCEPT ![t] = "set_initialized"]
               /\ exc' = exc
          ELSE /\ tpc' = [tpc EXCEPT ![t] = "log_error"]
               /\ exc' = [exc EXCEPT ![t] = Some(outcome)]
    /\ UNCHANGED <<cfgVars, made, _instance, nObjects, _initialized, self, log, calls>>

(* __init__: self._initialized = True *)
SetInitialized(t) ==
    /\ tpc[t] = "set_initialized"
    /\ _initialized' = [_initialized EXCEPT ![self[t]] = TRUE]
    /\ tpc' = [tpc EXCEPT ![t] = "log_success"]
    /\ UNCHANGED <<cfgVars, made, _instance, nObjects, self, exc, attempts,
                   log, calls, initCount>>

(* __init__: logger.info("Firebase client initialized successfully") *)
LogSuccess(t) ==
    /\ tpc[t] = "log_success"
    /\ log' = Append(log, [level |-> "INFO", thread |-> t,
                           msg |-> <<"Firebase client initialized successfully">>])
    /\ tpc' = [tpc EXCEPT ![t] = "return"]
    /\ UNCHANGED <<cfgVars, made, _instance, nObjects, _initialized, self, exc, attempts,
                   calls, initCount>>

(* __init__: except Exception as e: logger.error(f"Failed to initialize Firebase: {e}") *)
LogError(t) ==
    /\ tpc[t] = "log_error"
    /\ log' = Append(log, [level |-> "ERROR", thread |-> t,
                           msg |-> <<"Failed to initialize Firebase: ", TheValue(exc[t])>>])
    /\ tpc' = [tpc EXCEPT ![t] = "reraise"]
    /\ UNCHANGED <<cfgVars, made, _instance, nObjects, _initialized, self, exc, attempts,
                   calls, initCount>>

(* Dropping the cached object when initialization failed. *)
ReraiseAndForget(t) ==
    /\ tpc[t] = "reraise"
    /\ calls' = Append(calls, [thread |-> t, obj |-> self[t], raised |-> exc[t],
                               attempts |-> attempts[t]])
    /\ tpc' = [tpc EXCEPT ![t] = "idle"]
    /\ self' = [self EXCEPT ![t] = 0]
    /\ exc' = [exc EXCEPT ![t] = None]
    /\ attempts' = [attempts EXCEPT ![t] = 0]
    /\ _instance' = 0
    /\ UNCHANGED <<cfgVars, made, nObjects, _initialized, log, initCount>>

(* __init__: raise -- the caught exception leaves FirebaseClient(). *)
Reraise(t) ==
    /\ tpc[t] = "reraise"
    /\ calls' = Append(calls, [thread |-> t, obj |-> self[t], raised |-> exc[t],
                               attempts |-> attempts[t]])
    /\ tpc' = [tpc EXCEPT ![t] = "idle"]
    /\ self' = [self EXCEPT ![t] = 0]
    /\ exc' = [exc EXCEPT ![t] = None]
    /\ attempts' = [attempts EXCEPT ![t] = 0]
    /\ UNCHANGED <<cfgVars, made, _instance, nObjects, _initialized, log, initCount>>

(* __init__ returns: FirebaseClient() evaluates to the object. *)
Return(t) ==
    /\ tpc[t] = "return"
    /\ calls' = Append(calls, [thread |-> t, obj |-> self[t], raised |-> None,
                               attempts |-> attempts[t]])
    /\ tpc' = [tpc EXCEPT ![t] = "idle"]
    /\ self' = [self EXCEPT ![t] = 0]
    /\ exc' = [exc EXCEPT ![t] = None]
    /\ attempts' = [attempts EXCEPT ![t] = 0]
    /\ UNCHANGED <<cfgVars, made, _instance, nObjects, _initialized, log, initCount>>

Step(t) ==
    \/ NewCheck(t)
    \/ NewCreate(t)
    \/ NewReturn(t)
    \/ InitCheck(t)
    \/ InitializeFirebase(t)
    \/ SetInitialized(t)
    \/ LogSuccess(t)
    \/ LogError(t)
    \/ Reraise(t)
    \/ Return(t)

(* Callers in one thread of control: a call starts when none is under way. *)
NextSequential == \E t \in Threads : CallInTurn(t) \/ Step(t)

SpecSequential == InitClient /\ [][NextSequential]_vars

(* Callers in several threads: any interleaving of their statements. *)
NextConcurrent == \E t \in Threads : Call(t) \/ Step(t)

SpecConcurrent == InitClient /\ [][NextConcurrent]_vars

(***************************************************************************)
(* Properties of the configuration loader, under Spec.                     *)
(***************************************************************************)
IsMissing(var) == env[var] = None \/ env[var] = Some(<< >>)
SomeRequiredMissing == \E var \in RequiredSet : IsMissing(var)
AllSectionsUnassigned == \A i \in 1..Len(Sections) : Sections[i] = None
AllSectionsAssigned == \A i \in 1..Len(Sections) : Sections[i] # None

(* C1: whenever a mandatory variable is unset or empty, AQNHEConfig() fails  *)
(* with one EnvironmentError whose message names exactly the missing         *)
(* mandatory variables: every one of them and no other variable.             *)
C1_MissingVariablesAllNamed ==
    (SomeRequiredMissing /\ cpc # "validate") =>
        /\ cpc = "failed"
        /\ error # None
        /\ TheValue(error).type = "EnvironmentError"
        /\ \A var \in EnvVars :
              Mentions(TheValue(error).msg, var) <=> (var \in RequiredSet /\ IsMissing(var))

C1_Witness ==
    /\ cpc = "failed"
    /\ env["FIREBASE_PROJECT_ID"] = None
    /\ env["FIREBASE_CLIENT_EMAIL"] = Some(<< >>)
    /\ env["FIREBASE_PRIVATE_KEY"] = Some(<<"k">>)
    /\ env["FIREBASE_CLIENT_ID"] = None

(* C7: with the three mandatory variables non-empty, AQNHEConfig() never     *)
(* fails and runs to its end, and the private_key_id, client_id and          *)
(* database_url fields hold the empty string when their variable is unset    *)
(* and the variable's value unchanged when it is set.                        *)
C7_OptionalVariablesCarried ==
    ~SomeRequiredMissing =>
        /\ cpc # "failed"
        /\ error = None
        /\ cpc # "done" => ENABLED Next
        /\ cpc \notin {"validate", "firebase"} =>
              /\ firebase # None
              /\ \A pair \in {<<"FIREBASE_PRIVATE_KEY_ID", "private_key_id">>,
                              <<"FIREBASE_CLIENT_ID", "client_id">>,
                              <<"FIREBASE_DATABASE_URL", "database_url">>} :
                    TheValue(firebase)[pair[2]] =
                        IF env[pair[1]] = None THEN << >> ELSE TheValue(env[pair[1]])

C7_Witness ==
    /\ cpc = "done"
    /\ env["FIREBASE_PRIVATE_KEY_ID"] = Some(<<"k">>)
    /\ env["FIREBASE_CLIENT_ID"] = None
    /\ env["FIREBASE_DATABASE_URL"] = Some(<< >>)
    /\ TheValue(firebase)["private_key_id"] = <<"k">>
    /\ TheValue(firebase)["client_id"] = << >>

(* C9: AQNHEConfig() has no partial success: nothing is assigned before the  *)
(* environment is validated, a failed construction has assigned none of the  *)
(* four sections and three thresholds, a finished one has assigned them all. *)
C9_NoPartialSuccess ==
    /\ cpc = "validate" => AllSectionsUnassigned
    /\ cpc = "failed" => error # None /\ AllSectionsUnassigned
    /\ cpc = "done" => error = None /\ AllSectionsAssigned

C9_Witness ==
    /\ cpc = "failed"
    /\ AllSectionsUnassigned
    /\ env["FIREBASE_PROJECT_ID"] = Some(<<"k">>)
    /\ env["FIREBASE_CLIENT_EMAIL"] = Some(<<"k">>)
    /\ env["FIREBASE_PRIVATE_KEY"] = None

(***************************************************************************)
(* Properties of the dataclasses, under SpecClasses.                       *)
(***************************************************************************)
MadeA(cls) == made # None /\ TheValue(made).cls = cls

(* Where the two-character sequence backslash, n starts in s. *)
Occurrences(s) == {i \in 1..(Len(s) - 1) : s[i] = BS /\ s[i + 1] = LN}
Before(s, i) == Cardinality({j \in Occurrences(s) : j < i})

(* Each real newline written back as backslash, n. *)
EscapeNewlines(s) == StrReplace(s, <<NL>>, <<BS, LN>>)

(* C5: the private key FirebaseConfig stores has a real newline at the place *)
(* of every backslash-n of the key given, every other character of the key   *)
(* at its place, no backslash-n left; escaping its newlines and normalizing  *)
(* again gives the same stored key.                                          *)
C5_PrivateKeyNormalized ==
    (MadeA("FirebaseConfig") /\ TheValue(made).out.val # None) =>
        LET given  == TheValue(made).args["private_key"]
            stored == TheValue(TheValue(made).out.val)["private_key"]
            occ    == Occurrences(given)
        IN  /\ Len(stored) = Len(given) - Cardinality(occ)
            /\ \A i \in 1..Len(given) :
                  /\ i \in occ => stored[i - Before(given, i)] = NL
                  /\ (i \notin occ /\ (i - 1) \notin occ) =>
                        stored[i - Before(given, i)] = given[i]
            /\ Occurrences(stored) = {}
            /\ NormalizePrivateKey(EscapeNewlines(stored)) = stored

C5_Witness ==
    /\ MadeA("FirebaseConfig")
    /\ TheValue(made).args["private_key"] = <<BS, LN, BS, LN>>
    /\ TheValue(made).out.val # None
    /\ TheValue(TheValue(made).out.val)["private_key"] = <<NL, NL>>

EmptyChecked(args) == {f \in CheckedFields : args[f] = << >>}

(* C6 as stated: an empty project_id, private_key or client_email makes      *)
(* FirebaseConfig fail with an error naming the empty fields; with all three *)
(* non-empty it succeeds.                                                    *)
C6_ErrorNamesMissingFields ==
    MadeA("FirebaseConfig") =>
        LET args == TheValue(made).args
            out  == TheValue(made).out
        IN  IF EmptyChecked(args) # {}
            THEN /\ out.exc # None
                 /\ \A f \in CheckedFields :
                       Mentions(TheValue(out.exc).msg, f) <=> f \in EmptyChecked(args)
            ELSE out.val # None

(* C6 amended: an empty project_id, private_key or client_email makes        *)
(* FirebaseConfig fail with a ValueError whose fixed message names none of   *)
(* the fields; with all three non-empty it succeeds.                         *)
C6_ErrorIsGeneric ==
    MadeA("FirebaseConfig") =>
        LET args == TheValue(made).args
            out  == TheValue(made).out
        IN  IF EmptyChecked(args) # {}
            THEN /\ out.exc # None /\ out.val = None
                 /\ TheValue(out.exc).type = "ValueError"
                 /\ TheValue(out.exc).msg = <<"Missing required Firebase credentials">>
                 /\ \A f \in FirebaseFields : ~Mentions(TheValue(out.exc).msg, f)
            ELSE out.val # None /\ out.exc = None

C6_Witness ==
    /\ MadeA("FirebaseConfig")
    /\ EmptyChecked(TheValue(made).args) = {"project_id"}
    /\ TheValue(made).out.exc # None

(* C8: a QuantumNeuroConfig always has a layer-width list: [64, 32, 16, 8]   *)
(* when none was given, and the list given, unchanged, when a non-empty one  *)
(* was.                                                                      *)
C8_LayersNeverAbsent ==
    MadeA("QuantumNeuroConfig") =>
        LET given == TheValue(made).args
            built == TheValue(TheValue(made).out.val).neuro_layers
        IN  /\ built # None
            /\ given = None => built = Some(<<64, 32, 16, 8>>)
            /\ (given # None /\ TheValue(given) # << >>) => built = given

C8_Witness ==
    /\ MadeA("QuantumNeuroConfig")
    /\ TheValue(made).args = Some(<<8, 64>>)
    /\ TheValue(TheValue(made).out.val).neuro_layers = Some(<<8, 64>>)

(***************************************************************************)
(* Properties of FirebaseClient, under SpecSequential and SpecConcurrent.  *)
(***************************************************************************)
CallIds == 1..Len(calls)
Succeeded(k) == calls[k].raised = None
RanInitialization(k) == calls[k].attempts > 0

(* C2: with one call at a time, once a call has succeeded every later call   *)
(* succeeds, evaluates to the same object and does not run                   *)
(* _initialize_firebase; when the very first call succeeded,                 *)
(* _initialize_firebase has run exactly once.                                *)
C2_SameInstanceOneInitialization ==
    \A f \in CallIds :
        (Succeeded(f) /\ \A j \in 1..(f - 1) : ~Succeeded(j)) =>
            /\ calls[f].obj # 0
            /\ initCount = f
            /\ f = 1 => initCount = 1
            /\ \A k \in (f + 1)..Len(calls) :
                  /\ Succeeded(k)
                  /\ calls[k].obj = calls[f].obj
                  /\ ~RanInitialization(k)

C2_Witness ==
    /\ Len(calls) = 3
    /\ Succeeded(1) /\ Succeeded(2) /\ Succeeded(3)
    /\ calls[1].thread # calls[2].thread
    /\ calls[3].obj = calls[1].obj
    /\ initCount = 1

(* C3 as stated: whatever the interleaving of the callers, one object        *)
(* exists, every call evaluates to it, and unless an initialization raised   *)
(* _initialize_firebase runs at most once.                                   *)
C3_OneInstanceUnderConcurrency ==
    /\ nObjects <= 1
    /\ \A j, k \in CallIds : calls[j].obj = calls[k].obj
    /\ ((\A i \in 1..Len(log) : log[i].level # "ERROR") /\ (\A t \in Threads : exc[t] = None))
          => initCount <= 1

LogOf(level, t) == SelectSeq(log, LAMBDA r : r.level = level /\ r.thread = t)
FailedCallsOf(t) == SelectSeq(calls, LAMBDA c : c.thread = t /\ c.raised # None)
InitializingCallsOf(t) == SelectSeq(calls, LAMBDA c : c.thread = t /\ c.raised = None /\ c.attempts > 0)
Pending(t, where) == IF tpc[t] = where THEN 1 ELSE 0

(* A call on object o whose own initialization returned. *)
SomeCallInitialized(o) ==
    \/ \E k \in CallIds : calls[k].obj = o /\ Succeeded(k) /\ RanInitialization(k)
    \/ \E t \in Threads : /\ tpc[t] \in {"log_success", "return"}
                          /\ self[t] = o /\ attempts[t] > 0 /\ exc[t] = None

(* C4: a call in which _initialize_firebase raised made one attempt, logged  *)
(* one error carrying the exception, logged no success, ended by raising     *)
(* that exception, and did not mark its object initialized: the object is    *)
(* marked only if another call's initialization returned.                    *)
C4_FailedInitializationPropagates ==
    /\ \A k \in CallIds :
          ~Succeeded(k) =>
              /\ calls[k].attempts = 1
              /\ calls[k].raised \subseteq Exceptions
              /\ _initialized[calls[k].obj] => SomeCallInitialized(calls[k].obj)
    /\ \A t \in Threads :
          LET errors == LogOf("ERROR", t)
              failed == FailedCallsOf(t)
          IN  /\ Len(errors) = Len(failed) + Pending(t, "reraise")
              /\ \A j \in 1..Len(failed) :
                    errors[j].msg = <<"Failed to initialize Firebase: ", TheValue(failed[j].raised)>>
              /\ tpc[t] = "reraise" =>
                    errors[Len(errors)].msg = <<"Failed to initialize Firebase: ", TheValue(exc[t])>>
              /\ Len(LogOf("INFO", t)) =
                    Len(InitializingCallsOf(t))
                    + (IF tpc[t] = "return" /\ attempts[t] > 0 THEN 1 ELSE 0)

C4_Witness ==
    /\ Len(calls) = 1
    /\ calls[1].raised = Some("FirebaseError")
    /\ calls[1].attempts = 1
    /\ ~_initialized[calls[1].obj]
    /\ Len(log) = 1 /\ log[1].level = "ERROR"

(* In a state where no call is under way and the last one failed. *)
LastCallFailed ==
    /\ calls # << >>
    /\ ~Succeeded(Len(calls))
    /\ \A t \in Threads : tpc[t] = "idle"

C10_AfterFailure ==
    /\ LastCallFailed =>
          /\ _instance # 0
          /\ _instance = calls[Len(calls)].obj
          /\ ~_initialized[_instance]
    /\ \A k \in CallIds :
          (~Succeeded(k) /\ k < Len(calls)) =>
              /\ calls[k + 1].obj = calls[k].obj
              /\ calls[k + 1].attempts = 1

C10_FlagStep ==
    \A o \in Objects :
        /\ (~_initialized[o] /\ _initialized'[o]) =>
              \E t \in Threads : /\ tpc[t] = "set_initialized" /\ tpc'[t] = "log_success"
                                 /\ self[t] = o
                                 /\ attempts[t] = 1 /\ exc[t] = None
        /\ _initialized[o] => _initialized'[o]

(* C10: with one call at a time, a call whose initialization failed leaves   *)
(* the object cached in _instance and not marked, and the next call runs     *)
(* _initialize_firebase once more on that same object; _initialized becomes  *)
(* true only by the statement that follows an initialization that returned,  *)
(* and once true it stays true.                                              *)
C10_RetryAfterFailure == [](C10_AfterFailure) /\ [][C10_FlagStep]_vars

C10_Witness ==
    /\ Len(calls) = 2
    /\ ~Succeeded(1) /\ Succeeded(2)
    /\ calls[2].obj = calls[1].obj
    /\ calls[2].attempts = 1
    /\ _initialized[calls[2].obj]

====
